---- MODULE Spec2Model ----
(***************************************************************************)
(* Session gate, auth service and user/number storage of the number        *)
(* database server (server/routes.ts, server/auth.ts, server/storage.ts).  *)
(*                                                                         *)
(* The auth service talks to the module "./storage"; the repository holds  *)
(* two implementations of it: DatabaseStorage (server/storage.ts) and the  *)
(* FileStorage that forwards user operations to the secure user storage.   *)
(* The variable backend records which one the process was started with.    *)
(***************************************************************************)
EXTENDS Integers, FiniteSets, Sequences, TLC

\* ------------------------------------------------------------------ bounds
Sessions == {"s1", "s2"}
MaxNumberId == 2
\* Server starts in one behaviour (the first start and the restarts).
MaxBoots == 2
\* The clock counts steps of ten minutes, up to MaxTime.
MaxTime == 6
\* cookie.maxAge, 30 minutes, in steps of the clock
CookieMaxAge == 3

\* ------------------------------------------------------- request inputs
\* JavaScript undefined: an absent body field or an absent record field.
Undefined == "<undefined>"

\* Request bodies: <<username, password>> of a login,
\* <<newUsername, newPassword>> of a credential change (under each current
\* password), <<username, password, role>> of a create-user; "" is a missing field.
LoginRequests ==
    {<<"admin", "admin123">>, <<"admin", "secret1">>, <<"danixren", "pendukungjava">>,
     <<"danixren", "admin123">>, <<"bob", "secret1">>, <<"bob", "admin123">>,
     <<"", "admin123">>, <<"admin", "">>}
CurrentPasswords == {"admin123", "secret1"}
ChangeRequests ==
    {<<Undefined, Undefined>>, <<"bob", Undefined>>, <<Undefined, "secret1">>,
     <<"bob", "secret1">>, <<"danixren", Undefined>>, <<"ab", Undefined>>,
     <<Undefined, "short">>}
CreateRequests ==
    {<<"bob", "secret1", "user">>, <<"bob", "secret1", "admin">>,
     <<"admin", "secret1", "user">>, <<"ab", "secret1", "user">>,
     <<"bob", "short", "user">>, <<"bob", "secret1", "root">>,
     <<"", "secret1", "user">>, <<"bob", "", "user">>, <<"bob", "secret1", "">>}
NumberInputs == {"0812", ""}
NumberIdParams == {"1", "2", "abc"}

Backends == {"db", "file"}
\* the accounts DatabaseStorage.initializeData seeds, in its order
SeedAccounts ==
    <<[username |-> "admin", password |-> "admin123", role |-> "admin"],
      [username |-> "danixren", password |-> "pendukungjava", role |-> "user"]>>
\* concurrent runs of the start-up seeding against one users table
BootRuns == {"b1", "b2"}
\* A client's session cookie: whether it holds one and when it expires, and, for
\* stating properties, when the client last made a request and whether its
\* session was authenticated after that request.
NoCookie == [held |-> FALSE, expires |-> 0, lastUse |-> 0, accepted |-> FALSE]
\* Storage calls that may be in progress at the same time.
Calls == {"c1", "c2"}
\* numbers.json as a fresh install has it: { numbers: [], nextNumberId: 1 }
EmptyData == [numbers |-> {}, nextNumberId |-> 1]
\* numbersCache and currentId of a new FileStorage object
EmptyCache == [numbers |-> {}, currentId |-> 1]
\* a storage call that is not in progress
IdleCall == [pc |-> "idle", op |-> "none", number |-> "", id |-> 0, data |-> EmptyData]
\* What the last completed storage call returned (id: the id of the number
\* addNumber returned; found: the boolean of deleteNumber), and, for stating
\* properties: issued, the ids addNumber has returned so far; reused, whether
\* addNumber has returned an id it had returned before; acked, the numbers
\* addNumber has returned and no deleteNumber has since reported deleted.
NothingReturned ==
    [op |-> "none", id |-> 0, found |-> FALSE, issued |-> {}, reused |-> FALSE, acked |-> {}]
\* the credentials variable before it is loaded (null)
NoCredentials == [username |-> Undefined, password |-> Undefined]
\* the credentials initializeCredentials falls back to
DefaultCredentials == [username |-> "admin", password |-> "admin123"]
\* server/config/credentials.json when the process first starts: no file, a file
\* that is not valid JSON, the defaults, or credentials the operator has set
credentialsFileOf(state, content) == [state |-> state, content |-> content]
InitialCredentialsFiles ==
    {credentialsFileOf("absent", NoCredentials),
     credentialsFileOf("corrupt", NoCredentials),
     credentialsFileOf("valid", DefaultCredentials),
     credentialsFileOf("valid", [username |-> "bob", password |-> "secret1"])}

VARIABLES backend, phase, dbUsers, dbNextUserId, secUsers, sessions,
          numbers, nextNumberId, resp,
          boots, bootPc, credentialsFile, credentials, savePc,
          now, cookieJar, secretEnv, cache, inflight, returned

vars == <<backend, phase, dbUsers, dbNextUserId, secUsers, sessions,
          numbers, nextNumberId, resp,
          boots, bootPc, credentialsFile, credentials, savePc,
          now, cookieJar, secretEnv, cache, inflight, returned>>

\* the configured session secret, and the state of the number storages that
\* are observed call by call
storageVars == <<secretEnv, cache, inflight, returned>>

\* state of the start-up flows, of the credentials file and of the clients'
\* session cookies, which the request handlers never touch
startupVars ==
    <<bootPc, credentialsFile, credentials, savePc, now, cookieJar, storageVars>>

\* ------------------------------------------------------------ user records
\* The value a lookup returns when there is no record (undefined / null).
NoUser == [id |-> 0, username |-> Undefined, password |-> Undefined, role |-> Undefined]

\* The SessionData of a request without a stored session.
EmptySession == [isAuthenticated |-> FALSE, userId |-> 0,
                 username |-> Undefined, role |-> Undefined]

\* The last request answered: the route, the session it was sent on, the HTTP status
\* and message, the storage operations the handler invoked, and the user data in
\* the response body.
\* wasAuthenticated: whether the session was authenticated when the request came in.
NoResp == [op |-> "none", sess |-> "none", wasAuthenticated |-> FALSE,
           status |-> 0, message |-> "", calls |-> {},
           isAuthenticated |-> FALSE, identity |-> NoUser, users |-> {}]

\* Password material of the secure store: a salted derivation of the password.
derivePasswordHash(password, salt) == <<password, salt>>

\* ------------------------------------------------------ schema validation
loginSchemaOk(username, password) == username # "" /\ password # ""

changeCredentialsSchemaOk(currentPassword, newUsername, newPassword) ==
    /\ currentPassword # ""
    /\ (newUsername = Undefined \/ Len(newUsername) >= 3)
    /\ (newPassword = Undefined \/ Len(newPassword) >= 6)

insertNumberSchemaOk(number) == number # ""

\* ------------------------------------------------------ secure user storage
secGetUserByUsername(username) ==
    IF \E u \in secUsers : u.username = username
    THEN CHOOSE u \in secUsers : u.username = username
    ELSE [id |-> 0, username |-> Undefined, passwordHash |-> Undefined,
          salt |-> 0, role |-> Undefined]

secGetUserById(id) ==
    IF \E u \in secUsers : u.id = id
    THEN CHOOSE u \in secUsers : u.id = id
    ELSE [id |-> 0, username |-> Undefined, passwordHash |-> Undefined,
          salt |-> 0, role |-> Undefined]

secNextId(table) ==
    IF table = {} THEN 1
    ELSE (CHOOSE m \in {u.id : u \in table} : \A u \in table : u.id <= m) + 1

secUsernameTaken(table, username) == \E u \in table : u.username = username

\* insert: the table after a successful insert
secInsert(table, username, password, role) ==
    LET id == secNextId(table) IN
    table \cup {[id |-> id, username |-> username,
                 passwordHash |-> derivePasswordHash(password, id),
                 salt |-> id, role |-> role]}

\* update(id, {username?, role?}): "dup" | "missing" | "ok"
secUpdateOutcome(table, id, username) ==
    IF ~(\E u \in table : u.id = id) THEN "missing"
    ELSE IF username # Undefined /\ (\E u \in table : u.username = username /\ u.id # id)
         THEN "dup"
         ELSE "ok"

\* createUser: the error it throws, or "" when the record is created and saved
secCreateUserError(table, username, persistOk) ==
    IF secUsernameTaken(table, username) THEN "Username already exists"
    ELSE IF ~persistOk THEN "Failed to save users"
    ELSE ""

\* mutant of secCreateUser: a record whose save failed stays in the table
secCreateUser_noRollback(table, username, password, role, persistOk) ==
    IF secUsernameTaken(table, username) THEN table
    ELSE secInsert(table, username, password, role)

\* createUser: the table it leaves; a failed save restores the table
secCreateUser(table, username, password, role, persistOk) ==
    IF secCreateUserError(table, username, persistOk) # "" THEN table
    ELSE secInsert(table, username, password, role)

secUpdate(table, id, username, role) ==
    {IF u.id = id
     THEN [u EXCEPT !.username = IF username = Undefined THEN @ ELSE username,
                    !.role = IF role = Undefined THEN @ ELSE role]
     ELSE u : u \in table}

\* getAllUsers: the non-secret view of every record
secGetAllUsers == {[id |-> u.id, username |-> u.username, role |-> u.role] : u \in secUsers}

\* ------------------------------------------------------- DatabaseStorage
dbGetUserByUsername(username) ==
    IF \E u \in dbUsers : u.username = username
    THEN CHOOSE u \in dbUsers : u.username = username
    ELSE NoUser

dbGetUserById(id) ==
    IF \E u \in dbUsers : u.id = id
    THEN CHOOSE u \in dbUsers : u.id = id
    ELSE NoUser

\* mutant of dbUsernameTaken: the table has no unique constraint
dbUsernameTaken_none(table, username, exceptId) == FALSE

\* unique constraint of users.username
dbUsernameTaken(table, username, exceptId) ==
    \E u \in table : u.username = username /\ u.id # exceptId

dbCreateUser(table, id, username, password, role) ==
    table \cup {[id |-> id, username |-> username, password |-> password, role |-> role]}

\* mutant of dbUpdateUser: only the username is written
dbUpdateUser_usernameOnly(table, id, username, password) ==
    {IF u.id = id
     THEN [u EXCEPT !.username = IF username = Undefined THEN @ ELSE username]
     ELSE u : u \in table}

\* mutant of dbUpdateUser: an undefined field is written as it is
dbUpdateUser_writesUndefined(table, id, username, password) ==
    {IF u.id = id
     THEN [u EXCEPT !.username = IF username = Undefined THEN @ ELSE username,
                    !.password = password]
     ELSE u : u \in table}

\* set({...updates}): an undefined field leaves the column alone
dbUpdateUser(table, id, username, password) ==
    {IF u.id = id
     THEN [u EXCEPT !.username = IF username = Undefined THEN @ ELSE username,
                    !.password = IF password = Undefined THEN @ ELSE password]
     ELSE u : u \in table}

\* ------------------------------------------------- FileStorage (user part)
fileView(userData) ==
    IF userData.id = 0 THEN NoUser
    ELSE [id |-> userData.id, username |-> userData.username,
          password |-> Undefined, role |-> userData.role]

fileGetUserByUsername(username) == fileView(secGetUserByUsername(username))

fileGetUserById(id) == fileView(secGetUserById(id))

\* --------------------------------------------- storage, as the service sees it
getUserByUsername(username) ==
    IF backend = "db" THEN dbGetUserByUsername(username)
    ELSE fileGetUserByUsername(username)

getUserById(id) ==
    IF backend = "db" THEN dbGetUserById(id) ELSE fileGetUserById(id)

\* ------------------------------------------------------------ AuthService
\* mutant of validateLogin: the password comparison is missing
validateLogin_noPasswordCheck(username, password) ==
    IF ~loginSchemaOk(username, password) THEN NoUser
    ELSE getUserByUsername(username)

validateLogin(username, password) ==
    IF ~loginSchemaOk(username, password) THEN NoUser
    ELSE LET user == getUserByUsername(username) IN
         IF user = NoUser THEN NoUser
         ELSE IF user.password = password THEN user
         ELSE NoUser

\* mutant of changeCredentialsAccepted: the current password is not compared
changeCredentialsAccepted_noPassword(userId, currentPassword, newUsername, newPassword) ==
    /\ changeCredentialsSchemaOk(currentPassword, newUsername, newPassword)
    /\ getUserById(userId) # NoUser

\* the guard of changeCredentials: TRUE when the change is applied
changeCredentialsAccepted(userId, currentPassword, newUsername, newPassword) ==
    /\ changeCredentialsSchemaOk(currentPassword, newUsername, newPassword)
    /\ LET user == getUserById(userId) IN
       user # NoUser /\ user.password = currentPassword

authGetUserById(id) == getUserById(id)

\* ------------------------------------------------------------- middleware
\* mutant of requireAuth: the check is missing
requireAuth_open(s) == TRUE

requireAuth(s) == sessions[s].isAuthenticated

\* mutant of requireAdmin: the role is not looked at
requireAdmin_noRole(s) == sessions[s].isAuthenticated

requireAdmin(s) == sessions[s].isAuthenticated /\ sessions[s].role = "admin"

Reply(op, s, status, message, calls) ==
    [op |-> op, sess |-> s, wasAuthenticated |-> sessions[s].isAuthenticated,
     status |-> status, message |-> message, calls |-> calls,
     isAuthenticated |-> FALSE, identity |-> NoUser, users |-> {}]

\* ------------------------------------------------------------------- Init
Init ==
    /\ backend \in Backends
    /\ phase = "starting"
    /\ dbUsers = {}
    /\ dbNextUserId = 1
    /\ secUsers = {}
    /\ sessions = [s \in Sessions |-> EmptySession]
    /\ numbers = {}
    /\ nextNumberId = 1
    /\ resp = NoResp
    /\ boots = 0
    /\ bootPc = [p \in BootRuns |-> [step |-> "idle", seed |-> 1]]
    /\ credentialsFile = credentialsFileOf("absent", NoCredentials)
    /\ credentials = NoCredentials
    /\ savePc = "idle"
    /\ now = 0
    /\ cookieJar = [s \in Sessions |-> NoCookie]
    /\ secretEnv = Undefined
    /\ cache = EmptyCache
    /\ inflight = [c \in Calls |-> IdleCall]
    /\ returned = NothingReturned

\* ------------------------------------------------------------- bootstrap
\* DatabaseStorage.initializeData: seed accounts, each created when absent
dbSeed(table, nextId, username, password, role) ==
    IF \E u \in table : u.username = username THEN table
    ELSE dbCreateUser(table, nextId, username, password, role)

dbSeedNextId(table, nextId, username) ==
    IF \E u \in table : u.username = username THEN nextId ELSE nextId + 1

\* bootstrap of the secure store: the default administrator on first run
secBootstrap(table) ==
    IF table = {} THEN secInsert(table, "admin", "admin123", "admin") ELSE table

initializeData ==
    /\ phase = "starting"
    /\ phase' = "serving"
    /\ IF backend = "db"
       THEN LET t1 == dbSeed(dbUsers, dbNextUserId, "admin", "admin123", "admin")
                n1 == dbSeedNextId(dbUsers, dbNextUserId, "admin")
            IN /\ dbUsers' = dbSeed(t1, n1, "danixren", "pendukungjava", "user")
               /\ dbNextUserId' = dbSeedNextId(t1, n1, "danixren")
       ELSE UNCHANGED <<dbUsers, dbNextUserId>>
    /\ secUsers' = secBootstrap(secUsers)
    /\ UNCHANGED <<backend, sessions, numbers, nextNumberId, resp>>
    /\ boots' = boots + 1
    /\ UNCHANGED startupVars

\* ------------------------------------------------------------ auth routes
\* mutant of sessionFor: every login is given the admin role
sessionFor_admin(user) ==
    [isAuthenticated |-> TRUE, userId |-> user.id,
     username |-> user.username, role |-> "admin"]

\* the session fields login sets from the validated record
sessionFor(user) ==
    [isAuthenticated |-> TRUE, userId |-> user.id,
     username |-> user.username, role |-> user.role]

Login(s, username, password) ==
    /\ phase = "serving"
    /\ IF ~loginSchemaOk(username, password)
       THEN /\ resp' = Reply("login", s, 400, "Invalid request data", {})
            /\ UNCHANGED sessions
       ELSE LET user == validateLogin(username, password) IN
            IF user # NoUser
            THEN /\ sessions' = [sessions EXCEPT ![s] = sessionFor(user)]
                 /\ resp' = Reply("login", s, 200, "Login successful",
                                  {"getUserByUsername"})
            ELSE /\ resp' = Reply("login", s, 401, "Invalid username or password",
                                  {"getUserByUsername"})
                 /\ UNCHANGED sessions
    /\ UNCHANGED <<backend, phase, dbUsers, dbNextUserId, secUsers, numbers, nextNumberId>>
    /\ UNCHANGED <<boots, startupVars>>

\* mutant of destroySession: only the flag is cleared
destroySession_flagOnly(table, s) == [table EXCEPT ![s].isAuthenticated = FALSE]

\* req.session.destroy: the next request on s starts from an empty session
destroySession(table, s) == [table EXCEPT ![s] = EmptySession]

Logout(s) ==
    /\ phase = "serving"
    /\ sessions' = destroySession(sessions, s)
    /\ resp' = Reply("logout", s, 200, "Logged out successfully", {})
    /\ UNCHANGED <<backend, phase, dbUsers, dbNextUserId, secUsers, numbers, nextNumberId>>
    /\ UNCHANGED <<boots, startupVars>>

\* mutant of meIdentity: the copy held in the session is returned
meIdentity_fromSession(s, user) ==
    [id |-> sessions[s].userId, username |-> sessions[s].username,
     password |-> Undefined, role |-> sessions[s].role]

\* mutant of meIdentity: the looked-up record is sent as it is
meIdentity_wholeRecord(s, user) == user

\* the identity /api/auth/me answers with
meIdentity(s, user) ==
    [id |-> user.id, username |-> user.username,
     password |-> Undefined, role |-> user.role]

Me(s) ==
    /\ phase = "serving"
    /\ IF sessions[s].isAuthenticated
       THEN LET user == authGetUserById(sessions[s].userId) IN
            IF user # NoUser
            THEN /\ resp' = [Reply("me", s, 200, "", {"getUserById"}) EXCEPT
                                !.isAuthenticated = TRUE,
                                !.identity = meIdentity(s, user)]
                 /\ UNCHANGED sessions
            ELSE /\ sessions' = destroySession(sessions, s)
                 /\ resp' = Reply("me", s, 200, "", {"getUserById"})
       ELSE /\ resp' = Reply("me", s, 200, "", {})
            /\ UNCHANGED sessions
    /\ UNCHANGED <<backend, phase, dbUsers, dbNextUserId, secUsers, numbers, nextNumberId>>
    /\ UNCHANGED <<boots, startupVars>>

\* storage.updateUser(userId, {username, password}) as changeCredentials calls it:
\* "ok" when the update is applied, "throws" when the store rejects it
updateUserOutcome(userId, newUsername) ==
    IF backend = "db"
    THEN IF newUsername # Undefined /\ dbUsernameTaken(dbUsers, newUsername, userId)
         THEN "throws" ELSE "ok"
    ELSE IF secUpdateOutcome(secUsers, userId, newUsername) = "dup"
         THEN "throws" ELSE "ok"

ChangeCredentials(s, currentPassword, newUsername, newPassword) ==
    /\ phase = "serving"
    /\ IF ~requireAdmin(s)
       THEN /\ resp' = Reply("change-credentials", s, 403, "Admin access required", {})
            /\ UNCHANGED <<sessions, dbUsers, secUsers>>
       ELSE IF ~changeCredentialsSchemaOk(currentPassword, newUsername, newPassword)
       THEN /\ resp' = Reply("change-credentials", s, 400, "Invalid data", {})
            /\ UNCHANGED <<sessions, dbUsers, secUsers>>
       ELSE IF ~changeCredentialsAccepted(sessions[s].userId, currentPassword,
                                          newUsername, newPassword)
       THEN /\ resp' = Reply("change-credentials", s, 400,
                             "Current password is incorrect", {"getUserById"})
            /\ UNCHANGED <<sessions, dbUsers, secUsers>>
       ELSE IF updateUserOutcome(sessions[s].userId, newUsername) = "throws"
       THEN /\ resp' = Reply("change-credentials", s, 500,
                             "Failed to update credentials", {"getUserById", "updateUser"})
            /\ UNCHANGED <<sessions, dbUsers, secUsers>>
       ELSE /\ IF backend = "db"
               THEN /\ dbUsers' = dbUpdateUser(dbUsers, sessions[s].userId,
                                               newUsername, newPassword)
                    /\ UNCHANGED secUsers
               ELSE /\ secUsers' = secUpdate(secUsers, sessions[s].userId,
                                             newUsername, Undefined)
                    /\ UNCHANGED dbUsers
            /\ sessions' = [sessions EXCEPT ![s].username = newUsername]
            /\ resp' = Reply("change-credentials", s, 200,
                             "Credentials updated successfully", {"getUserById", "updateUser"})
    /\ UNCHANGED <<backend, phase, dbNextUserId, numbers, nextNumberId>>
    /\ UNCHANGED <<boots, startupVars>>

\* mutant of createUserValidation: the password length is not checked
createUserValidation_noPasswordLength(username, password, role) ==
    IF username = "" \/ password = "" \/ role = ""
    THEN "Username, password, and role are required"
    ELSE IF role \notin {"admin", "user"}
    THEN "Role must be either 'admin' or 'user'"
    ELSE IF Len(username) < 3
    THEN "Username must be at least 3 characters"
    ELSE ""

\* the checks of the create-user handler before the store is called:
\* the message of the 400 reply, or "" when the input passes
createUserValidation(username, password, role) ==
    IF username = "" \/ password = "" \/ role = ""
    THEN "Username, password, and role are required"
    ELSE IF role \notin {"admin", "user"}
    THEN "Role must be either 'admin' or 'user'"
    ELSE IF Len(username) < 3
    THEN "Username must be at least 3 characters"
    ELSE IF Len(password) < 6
    THEN "Password must be at least 6 characters"
    ELSE ""

\* mutant of createUserFailure: every store error is a generic failure
createUserFailure_generic(error) ==
    [status |-> 500, message |-> "Failed to create user"]

\* the catch block of the create-user handler
createUserFailure(error) ==
    IF error = "Username already exists"
    THEN [status |-> 409, message |-> "Username already exists"]
    ELSE [status |-> 500, message |-> "Failed to create user"]

CreateUser(s, username, password, role, persistOk) ==
    /\ phase = "serving"
    /\ IF ~requireAdmin(s)
       THEN /\ resp' = Reply("create-user", s, 403, "Admin access required", {})
            /\ UNCHANGED secUsers
       ELSE IF createUserValidation(username, password, role) # ""
       THEN /\ resp' = Reply("create-user", s, 400,
                             createUserValidation(username, password, role), {})
            /\ UNCHANGED secUsers
       ELSE LET error == secCreateUserError(secUsers, username, persistOk) IN
            /\ secUsers' = secCreateUser(secUsers, username, password, role, persistOk)
            /\ IF error # ""
               THEN resp' = Reply("create-user", s, createUserFailure(error).status,
                                  createUserFailure(error).message, {"createUser"})
               ELSE resp' = [Reply("create-user", s, 201, "User created successfully",
                                   {"createUser"}) EXCEPT
                                !.users = {[id |-> secNextId(secUsers),
                                            username |-> username, role |-> role]}]
    /\ UNCHANGED <<backend, phase, dbUsers, dbNextUserId, sessions, numbers, nextNumberId>>
    /\ UNCHANGED <<boots, startupVars>>

ListUsers(s) ==
    /\ phase = "serving"
    /\ IF ~requireAdmin(s)
       THEN resp' = Reply("list-users", s, 403, "Admin access required", {})
       ELSE resp' = [Reply("list-users", s, 200, "", {"getAllUsers"}) EXCEPT
                        !.users = secGetAllUsers]
    /\ UNCHANGED <<backend, phase, dbUsers, dbNextUserId, secUsers, sessions,
                   numbers, nextNumberId>>
    /\ UNCHANGED <<boots, startupVars>>

\* ---------------------------------------------------------- number routes
isNaN(param) == param \notin {"1", "2", "3"}

parseInt(param) == CASE param = "1" -> 1 [] param = "2" -> 2 [] param = "3" -> 3 [] OTHER -> 0

GetNumbers(s) ==
    /\ phase = "serving"
    /\ IF ~requireAuth(s)
       THEN resp' = Reply("get-numbers", s, 401, "Authentication required", {})
       ELSE resp' = Reply("get-numbers", s, 200, "", {"getNumbers"})
    /\ UNCHANGED <<backend, phase, dbUsers, dbNextUserId, secUsers, sessions,
                   numbers, nextNumberId>>
    /\ UNCHANGED <<boots, startupVars>>

AddNumber(s, number) ==
    /\ phase = "serving"
    /\ nextNumberId <= MaxNumberId
    /\ IF ~requireAuth(s)
       THEN /\ resp' = Reply("add-number", s, 401, "Authentication required", {})
            /\ UNCHANGED <<numbers, nextNumberId>>
       ELSE IF ~insertNumberSchemaOk(number)
       THEN /\ resp' = Reply("add-number", s, 400, "Invalid number data", {})
            /\ UNCHANGED <<numbers, nextNumberId>>
       ELSE /\ numbers' = numbers \cup {[id |-> nextNumberId, number |-> number]}
            /\ nextNumberId' = nextNumberId + 1
            /\ resp' = Reply("add-number", s, 201, "", {"addNumber"})
    /\ UNCHANGED <<backend, phase, dbUsers, dbNextUserId, secUsers, sessions>>
    /\ UNCHANGED <<boots, startupVars>>

DeleteNumber(s, param) ==
    /\ phase = "serving"
    /\ IF ~requireAdmin(s)
       THEN /\ resp' = Reply("delete-number", s, 403, "Admin access required", {})
            /\ UNCHANGED numbers
       ELSE IF isNaN(param)
       THEN /\ resp' = Reply("delete-number", s, 400, "Invalid number ID", {})
            /\ UNCHANGED numbers
       ELSE IF \E n \in numbers : n.id = parseInt(param)
       THEN /\ numbers' = {n \in numbers : n.id # parseInt(param)}
            /\ resp' = Reply("delete-number", s, 200, "Number deleted successfully",
                             {"deleteNumber"})
       ELSE /\ resp' = Reply("delete-number", s, 404, "Number not found",
                             {"deleteNumber"})
            /\ UNCHANGED numbers
    /\ UNCHANGED <<backend, phase, dbUsers, dbNextUserId, secUsers, sessions, nextNumberId>>
    /\ UNCHANGED <<boots, startupVars>>

\* ------------------------------------------------------------ environment
\* A user record removed from the store behind the server's back.
OutOfBandRemove(id) ==
    /\ phase = "serving"
    /\ IF backend = "db"
       THEN /\ \E u \in dbUsers : u.id = id
            /\ dbUsers' = {u \in dbUsers : u.id # id}
            /\ UNCHANGED secUsers
       ELSE /\ \E u \in secUsers : u.id = id
            /\ secUsers' = {u \in secUsers : u.id # id}
            /\ UNCHANGED dbUsers
    /\ UNCHANGED <<backend, phase, dbNextUserId, sessions, numbers, nextNumberId, resp>>
    /\ UNCHANGED <<boots, startupVars>>

Next ==
    \/ initializeData
    \/ \E s \in Sessions, r \in LoginRequests : Login(s, r[1], r[2])
    \/ \E s \in Sessions : Logout(s)
    \/ \E s \in Sessions : Me(s)
    \/ \E s \in Sessions, c \in CurrentPasswords, r \in ChangeRequests :
          ChangeCredentials(s, c, r[1], r[2])
    \/ \E s \in Sessions, r \in CreateRequests, ok \in BOOLEAN :
          CreateUser(s, r[1], r[2], r[3], ok)
    \/ \E s \in Sessions : ListUsers(s)
    \/ \E s \in Sessions : GetNumbers(s)
    \/ \E s \in Sessions, n \in NumberInputs : AddNumber(s, n)
    \/ \E s \in Sessions, p \in NumberIdParams : DeleteNumber(s, p)

Spec == Init /\ [][Next]_vars

NextEnv == Next \/ \E id \in 1..2 : OutOfBandRemove(id)

SpecEnv == Init /\ [][NextEnv]_vars

\* --------------------------------------------------------------- restart
\* The process stops and is started again. The users table, the secure user
\* file, the numbers and the session table (PostgreSQL) outlive the process;
\* registerRoutes runs initializeData again.
Restart ==
    /\ phase = "serving"
    /\ boots < MaxBoots
    /\ phase' = "starting"
    /\ UNCHANGED <<backend, dbUsers, dbNextUserId, secUsers, sessions,
                   numbers, nextNumberId, resp, boots, startupVars>>

NextRestart ==
    \/ initializeData
    \/ Restart
    \/ \E s \in Sessions, r \in LoginRequests : Login(s, r[1], r[2])
    \/ \E s \in Sessions : Logout(s)
    \/ \E s \in Sessions : Me(s)
    \/ \E s \in Sessions, c \in CurrentPasswords, r \in ChangeRequests :
          ChangeCredentials(s, c, r[1], r[2])

SpecRestart == Init /\ [][NextRestart]_vars

\* ------------------------------------------------- overlapping start-ups
\* Two runs of DatabaseStorage.initializeData against one users table. A run
\* yields at each await: after the lookup of a seed account and after its
\* insert. bootPc[p] is the await the run p is to resume from.
InitRace ==
    /\ backend = "db"
    /\ phase = "starting"
    /\ dbUsers = {}
    /\ dbNextUserId = 1
    /\ secUsers = {}
    /\ sessions = [s \in Sessions |-> EmptySession]
    /\ numbers = {}
    /\ nextNumberId = 1
    /\ resp = NoResp
    /\ boots = 0
    /\ bootPc = [p \in BootRuns |-> [step |-> "check", seed |-> 1]]
    /\ credentialsFile = credentialsFileOf("absent", NoCredentials)
    /\ credentials = NoCredentials
    /\ savePc = "idle"
    /\ now = 0
    /\ cookieJar = [s \in Sessions |-> NoCookie]
    /\ secretEnv = Undefined
    /\ cache = EmptyCache
    /\ inflight = [c \in Calls |-> IdleCall]
    /\ returned = NothingReturned

\* the run's position after it is done with seed account i
bootAfter(i) ==
    IF i < Len(SeedAccounts) THEN [step |-> "check", seed |-> i + 1]
    ELSE [step |-> "done", seed |-> i]

\* const user = await this.getUserByUsername(username); if (!user) ...
bootCheck(p) ==
    /\ phase = "starting"
    /\ bootPc[p].step = "check"
    /\ LET i == bootPc[p].seed IN
       bootPc' = [bootPc EXCEPT ![p] =
                     IF dbGetUserByUsername(SeedAccounts[i].username) = NoUser
                     THEN [step |-> "create", seed |-> i]
                     ELSE bootAfter(i)]
    /\ UNCHANGED <<backend, phase, dbUsers, dbNextUserId, secUsers, sessions,
                   numbers, nextNumberId, resp, boots, credentialsFile,
                   credentials, savePc>>
    /\ UNCHANGED <<now, cookieJar>>
    /\ UNCHANGED storageVars

\* await this.createUser({...}); an insert the table rejects throws into the
\* catch block, which ends the run
bootCreate(p) ==
    /\ phase = "starting"
    /\ bootPc[p].step = "create"
    /\ LET i == bootPc[p].seed
           a == SeedAccounts[i]
       IN IF dbUsernameTaken(dbUsers, a.username, 0)
          THEN /\ bootPc' = [bootPc EXCEPT ![p] = [step |-> "failed", seed |-> i]]
               /\ UNCHANGED <<dbUsers, dbNextUserId>>
          ELSE /\ dbUsers' = dbCreateUser(dbUsers, dbNextUserId,
                                          a.username, a.password, a.role)
               /\ dbNextUserId' = dbNextUserId + 1
               /\ bootPc' = [bootPc EXCEPT ![p] = bootAfter(i)]
    /\ UNCHANGED <<backend, phase, secUsers, sessions, numbers, nextNumberId,
                   resp, boots, credentialsFile, credentials, savePc>>
    /\ UNCHANGED <<now, cookieJar>>
    /\ UNCHANGED storageVars

\* both runs have returned: the routes are registered and requests are served
bootServe ==
    /\ phase = "starting"
    /\ \A p \in BootRuns : bootPc[p].step \in {"done", "failed"}
    /\ phase' = "serving"
    /\ boots' = boots + 1
    /\ secUsers' = secBootstrap(secUsers)
    /\ UNCHANGED <<backend, dbUsers, dbNextUserId, sessions, numbers,
                   nextNumberId, resp, startupVars>>

NextRace ==
    \/ \E p \in BootRuns : bootCheck(p)
    \/ \E p \in BootRuns : bootCreate(p)
    \/ bootServe
    \/ \E s \in Sessions, r \in LoginRequests : Login(s, r[1], r[2])
    \/ \E s \in Sessions : Logout(s)
    \/ \E s \in Sessions, r \in CreateRequests, ok \in BOOLEAN :
          CreateUser(s, r[1], r[2], r[3], ok)

SpecRace == InitRace /\ [][NextRace]_vars

\* ------------------------------------------------------ session lifetime
\* The session middleware in front of the handlers, with a client that keeps
\* the session cookie until its expiry date. The cookie is sent with the
\* response that creates or modifies the session (rolling is not set), with
\* the expiry date now + maxAge.
Tick ==
    /\ now < MaxTime
    /\ now' = now + 1
    /\ sessions' = [s \in Sessions |->
                      IF cookieJar[s].held /\ cookieJar[s].expires <= now + 1
                      THEN EmptySession ELSE sessions[s]]
    /\ cookieJar' = [s \in Sessions |->
                      IF cookieJar[s].held /\ cookieJar[s].expires <= now + 1
                      THEN [cookieJar[s] EXCEPT !.held = FALSE] ELSE cookieJar[s]]
    /\ UNCHANGED <<backend, phase, dbUsers, dbNextUserId, secUsers, numbers,
                   nextNumberId, resp, boots, bootPc, credentialsFile,
                   credentials, savePc>>
    /\ UNCHANGED storageVars

\* the cookie after a response: set anew when the client has none or the
\* session was modified, otherwise left as it is
cookieAfter(cookie, before, after) ==
    [held |-> cookie.held \/ after # before,
     expires |-> IF after # before THEN now + CookieMaxAge ELSE cookie.expires,
     lastUse |-> now,
     accepted |-> after.isAuthenticated]

\* POST /api/auth/login behind the session middleware
SessionLogin(s, username, password) ==
    /\ phase = "serving"
    /\ IF ~loginSchemaOk(username, password)
       THEN /\ resp' = Reply("login", s, 400, "Invalid request data", {})
            /\ UNCHANGED sessions
       ELSE LET user == validateLogin(username, password) IN
            IF user # NoUser
            THEN /\ sessions' = [sessions EXCEPT ![s] = sessionFor(user)]
                 /\ resp' = Reply("login", s, 200, "Login successful", {"validateLogin"})
            ELSE /\ resp' = Reply("login", s, 401, "Invalid username or password",
                                  {"validateLogin"})
                 /\ UNCHANGED sessions
    /\ cookieJar' = [cookieJar EXCEPT ![s] = cookieAfter(@, sessions[s], sessions'[s])]
    /\ UNCHANGED <<backend, phase, dbUsers, dbNextUserId, secUsers, numbers,
                   nextNumberId, boots, bootPc, credentialsFile, credentials,
                   savePc, now>>
    /\ UNCHANGED storageVars

\* GET /api/numbers behind the session middleware
SessionRequest(s) ==
    /\ phase = "serving"
    /\ IF ~requireAuth(s)
       THEN resp' = Reply("get-numbers", s, 401, "Authentication required", {})
       ELSE resp' = Reply("get-numbers", s, 200, "", {"getNumbers"})
    /\ cookieJar' = [cookieJar EXCEPT ![s] = cookieAfter(@, sessions[s], sessions[s])]
    /\ UNCHANGED <<backend, phase, dbUsers, dbNextUserId, secUsers, sessions,
                   numbers, nextNumberId, boots, bootPc, credentialsFile,
                   credentials, savePc, now>>
    /\ UNCHANGED storageVars

NextTimeout ==
    \/ initializeData
    \/ Tick
    \/ \E s \in Sessions, r \in LoginRequests : SessionLogin(s, r[1], r[2])
    \/ \E s \in Sessions : SessionRequest(s)

SpecTimeout == Init /\ [][NextTimeout]_vars

\* --------------------------------------------------------- session secret
\* secret: process.env.SESSION_SECRET || "your-secret-key-change-in-production"
DefaultSessionSecret == "your-secret-key-change-in-production"

\* the secret the session middleware signs cookies with
sessionSecret == IF secretEnv = Undefined THEN DefaultSessionSecret ELSE secretEnv

\* the process starts with SESSION_SECRET set or not set
InitSecret ==
    /\ backend \in Backends
    /\ phase = "starting"
    /\ dbUsers = {}
    /\ dbNextUserId = 1
    /\ secUsers = {}
    /\ sessions = [s \in Sessions |-> EmptySession]
    /\ numbers = {}
    /\ nextNumberId = 1
    /\ resp = NoResp
    /\ boots = 0
    /\ bootPc = [p \in BootRuns |-> [step |-> "idle", seed |-> 1]]
    /\ credentialsFile = credentialsFileOf("absent", NoCredentials)
    /\ credentials = NoCredentials
    /\ savePc = "idle"
    /\ now = 0
    /\ cookieJar = [s \in Sessions |-> NoCookie]
    /\ secretEnv \in {Undefined, "secret-from-the-environment"}
    /\ cache = EmptyCache
    /\ inflight = [c \in Calls |-> IdleCall]
    /\ returned = NothingReturned

SpecSecret == InitSecret /\ [][NextRestart]_vars

\* ------------------------------------------------------- long usernames
\* A create-user body whose username has 65 characters; the body of a request
\* is whatever the client sends.
LongUsername == "uxxxxxxxxxxxxxxxxxxxxxxxxxxxxxxxxxxxxxxxxxxxxxxxxxxxxxxxxxxxxxxxx"

LongCreateRequests == CreateRequests \cup {<<LongUsername, "secret1", "user">>}

NextLong ==
    \/ initializeData
    \/ \E s \in Sessions, r \in LoginRequests : Login(s, r[1], r[2])
    \/ \E s \in Sessions : Logout(s)
    \/ \E s \in Sessions, r \in LongCreateRequests, ok \in BOOLEAN :
          CreateUser(s, r[1], r[2], r[3], ok)
    \/ \E s \in Sessions : ListUsers(s)

SpecLong == Init /\ [][NextLong]_vars

\* ------------------------------------------------------- number storages
\* The three implementations of IStorage's number calls: DatabaseStorage
\* ("db"), the FileStorage of routes.ts that reads and rewrites numbers.json in
\* every call ("file"), and the FileStorage that keeps the numbers in memory
\* and saves them after every change ("cached"). numbers and nextNumberId are
\* what outlives the process: the rows and the id sequence of the table, or the
\* two fields of numbers.json.
NumberStores == {"db", "file", "cached"}
NumberValues == {"0812", "0857"}
NumberIds == 1..(MaxNumberId + 1)

\* the variables no storage call writes
numbersFrame ==
    <<dbUsers, dbNextUserId, secUsers, sessions, resp, bootPc, credentialsFile,
      credentials, savePc, now, cookieJar, secretEnv>>

\* readData: numbers.json as it is now
FileData == [numbers |-> numbers, nextNumberId |-> nextNumberId]

\* DatabaseStorage.addNumber: insert ... returning, the id drawn from the sequence
dbAddNumber(data, number) ==
    [numbers |-> data.numbers \cup {[id |-> data.nextNumberId, number |-> number]},
     nextNumberId |-> data.nextNumberId + 1]

\* DatabaseStorage.deleteNumber: delete ... where id = ...
dbDeleteNumber(data, id) == [data EXCEPT !.numbers = {n \in @ : n.id # id}]

\* FileStorage.addNumber (routes.ts), applied to the data it has read
fileAddNumber(data, number) ==
    [numbers |-> data.numbers \cup {[id |-> data.nextNumberId, number |-> number]},
     nextNumberId |-> data.nextNumberId + 1]

\* mutant of fileDeleteNumber: the filter also drops the numbers with a smaller id
fileDeleteNumber_upTo(data, id) == [data EXCEPT !.numbers = {n \in @ : n.id > id}]

\* FileStorage.deleteNumber (routes.ts): data.numbers.filter(n => n.id !== id)
fileDeleteNumber(data, id) == [data EXCEPT !.numbers = {n \in @ : n.id # id}]

\* data.numbers.length < initialLength
fileDeleteFound(data, id) ==
    Cardinality(fileDeleteNumber(data, id).numbers) < Cardinality(data.numbers)

\* mutant of cachedLoad: the next id is one more than the largest stored id
cachedLoad_maxPlusOne(data) ==
    [numbers |-> data.numbers,
     currentId |-> IF data.numbers = {} THEN 1
                   ELSE 1 + CHOOSE i \in {n.id : n \in data.numbers} :
                               \A n \in data.numbers : n.id <= i]

\* initializeData of the cached FileStorage: numbersCache and currentId from the file
cachedLoad(data) == [numbers |-> data.numbers, currentId |-> data.nextNumberId]

\* addNumber of the cached FileStorage, up to its await: id: this.currentId++, push
cachedAddNumber(c, number) ==
    [numbers |-> c.numbers \cup {[id |-> c.currentId, number |-> number]},
     currentId |-> c.currentId + 1]

\* findIndex(n => n.id === id) !== -1
cachedDeleteFound(c, id) == \E n \in c.numbers : n.id = id

\* splice(index, 1): the first number with the id leaves the array
cachedDeleteNumber(c, id) ==
    IF cachedDeleteFound(c, id)
    THEN [c EXCEPT !.numbers = @ \ {CHOOSE n \in @ : n.id = id}]
    ELSE c

\* JSON.stringify({ numbers: this.numbersCache, nextId }) with the nextId that
\* saveData read when it was called
cachedSerialize(c, nextId) == [numbers |-> c.numbers, nextNumberId |-> nextId]

\* the numbers getNumbers returns
storedNumbers == IF backend = "cached" THEN cache.numbers ELSE numbers

\* the id the next addNumber assigns
nextIdOf == IF backend = "cached" THEN cache.currentId ELSE nextNumberId

\* the record of a call that returned: addNumber with the number it created,
\* deleteNumber with its boolean
returnedAdd(id, number) ==
    [op |-> "add", id |-> id, found |-> FALSE,
     issued |-> returned.issued \cup {id},
     reused |-> returned.reused \/ id \in returned.issued,
     acked |-> returned.acked \cup {[id |-> id, number |-> number]}]

returnedDelete(id, found) ==
    [returned EXCEPT !.op = "delete", !.id = id, !.found = found,
                     !.acked = IF found THEN {n \in @ : n.id # id} ELSE @]

\* ---------------------------------------- number storages, one call at a time
InitNumbers ==
    /\ backend \in NumberStores
    /\ phase = "starting"
    /\ dbUsers = {}
    /\ dbNextUserId = 1
    /\ secUsers = {}
    /\ sessions = [s \in Sessions |-> EmptySession]
    /\ numbers = {}
    /\ nextNumberId = 1
    /\ resp = NoResp
    /\ boots = 0
    /\ bootPc = [p \in BootRuns |-> [step |-> "idle", seed |-> 1]]
    /\ credentialsFile = credentialsFileOf("absent", NoCredentials)
    /\ credentials = NoCredentials
    /\ savePc = "idle"
    /\ now = 0
    /\ cookieJar = [s \in Sessions |-> NoCookie]
    /\ secretEnv = Undefined
    /\ cache = EmptyCache
    /\ inflight = [c \in Calls |-> IdleCall]
    /\ returned = NothingReturned

\* initializeData of the storage in use. A numbers.json that is absent is
\* created with no numbers and the next id 1, which is what numbers and
\* nextNumberId hold before the first start; the cached FileStorage loads its
\* two fields from the file.
storageInitializeData ==
    /\ phase = "starting"
    /\ phase' = "serving"
    /\ boots' = boots + 1
    /\ cache' = IF backend = "cached" THEN cachedLoad(FileData) ELSE cache
    /\ UNCHANGED <<backend, numbers, nextNumberId, inflight, returned, numbersFrame>>

\* addNumber, run to its end with no other call in between
storageAddNumber(number) ==
    /\ phase = "serving"
    /\ nextIdOf <= MaxNumberId
    /\ CASE backend = "db" ->
              /\ numbers' = dbAddNumber(FileData, number).numbers
              /\ nextNumberId' = dbAddNumber(FileData, number).nextNumberId
              /\ UNCHANGED cache
         [] backend = "file" ->
              /\ numbers' = fileAddNumber(FileData, number).numbers
              /\ nextNumberId' = fileAddNumber(FileData, number).nextNumberId
              /\ UNCHANGED cache
         [] backend = "cached" ->
              LET next == cachedAddNumber(cache, number) IN
              /\ cache' = next
              /\ numbers' = cachedSerialize(next, next.currentId).numbers
              /\ nextNumberId' = cachedSerialize(next, next.currentId).nextNumberId
    /\ returned' = returnedAdd(nextIdOf, number)
    /\ UNCHANGED <<backend, phase, boots, inflight, numbersFrame>>

\* deleteNumber, run to its end with no other call in between
storageDeleteNumber(id) ==
    /\ phase = "serving"
    /\ CASE backend = "db" ->
              /\ numbers' = dbDeleteNumber(FileData, id).numbers
              /\ returned' = returnedDelete(id, \E n \in numbers : n.id = id)
              /\ UNCHANGED <<nextNumberId, cache>>
         [] backend = "file" ->
              /\ numbers' = IF fileDeleteFound(FileData, id)
                            THEN fileDeleteNumber(FileData, id).numbers
                            ELSE numbers
              /\ returned' = returnedDelete(id, fileDeleteFound(FileData, id))
              /\ UNCHANGED <<nextNumberId, cache>>
         [] backend = "cached" ->
              LET next == cachedDeleteNumber(cache, id) IN
              /\ cache' = next
              /\ numbers' = IF cachedDeleteFound(cache, id)
                            THEN cachedSerialize(next, next.currentId).numbers
                            ELSE numbers
              /\ nextNumberId' = IF cachedDeleteFound(cache, id)
                                 THEN cachedSerialize(next, next.currentId).nextNumberId
                                 ELSE nextNumberId
              /\ returned' = returnedDelete(id, cachedDeleteFound(cache, id))
    /\ UNCHANGED <<backend, phase, boots, inflight, numbersFrame>>

\* The process stops and is started again: the table and numbers.json stay,
\* numbersCache and currentId are those of a new object.
storageRestart ==
    /\ phase = "serving"
    /\ boots < MaxBoots
    /\ phase' = "starting"
    /\ cache' = EmptyCache
    /\ UNCHANGED <<backend, numbers, nextNumberId, boots, inflight, returned, numbersFrame>>

NextNumbers ==
    \/ storageInitializeData
    \/ \E n \in NumberValues : storageAddNumber(n)
    \/ \E id \in NumberIds : storageDeleteNumber(id)
    \/ storageRestart

SpecNumbers == InitNumbers /\ [][NextNumbers]_vars

\* ------------------------------- FileStorage of routes.ts, overlapping calls
\* A call yields at its awaits: readData and writeData. What it computes
\* between the two, it computes on the object readData returned to it, which
\* inflight[c].data holds until writeData has written it.
allIdle == \A c \in Calls : inflight[c].pc = "idle"

InitFileRace == InitNumbers /\ backend = "file"

\* addNumber up to await this.writeData(data)
fileAddRead(c, number) ==
    /\ phase = "serving"
    /\ inflight[c].pc = "idle"
    /\ nextNumberId <= MaxNumberId
    /\ inflight' = [inflight EXCEPT ![c] =
                      [pc |-> "write", op |-> "add", number |-> number,
                       id |-> FileData.nextNumberId,
                       data |-> fileAddNumber(FileData, number)]]
    /\ UNCHANGED <<backend, phase, boots, numbers, nextNumberId, cache, returned, numbersFrame>>

\* deleteNumber up to await this.writeData(data), or to return false
fileDeleteRead(c, id) ==
    /\ phase = "serving"
    /\ inflight[c].pc = "idle"
    /\ IF fileDeleteFound(FileData, id)
       THEN /\ inflight' = [inflight EXCEPT ![c] =
                              [pc |-> "write", op |-> "delete", number |-> "",
                               id |-> id, data |-> fileDeleteNumber(FileData, id)]]
            /\ UNCHANGED returned
       ELSE /\ returned' = returnedDelete(id, FALSE)
            /\ UNCHANGED inflight
    /\ UNCHANGED <<backend, phase, boots, numbers, nextNumberId, cache, numbersFrame>>

\* writeData completes and the call returns
fileWrite(c) ==
    /\ inflight[c].pc = "write"
    /\ numbers' = inflight[c].data.numbers
    /\ nextNumberId' = inflight[c].data.nextNumberId
    /\ returned' = IF inflight[c].op = "add"
                   THEN returnedAdd(inflight[c].id, inflight[c].number)
                   ELSE returnedDelete(inflight[c].id, TRUE)
    /\ inflight' = [inflight EXCEPT ![c] = IdleCall]
    /\ UNCHANGED <<backend, phase, boots, cache, numbersFrame>>

NextFileRace ==
    \/ storageInitializeData
    \/ \E c \in Calls, n \in NumberValues : fileAddRead(c, n)
    \/ \E c \in Calls, id \in NumberIds : fileDeleteRead(c, id)
    \/ \E c \in Calls : fileWrite(c)

SpecFileRace == InitFileRace /\ [][NextFileRace]_vars

\* --------------------------------- cached FileStorage, overlapping calls
\* addNumber and deleteNumber change numbersCache and currentId before their
\* first await. saveData reads this.currentId when it is called, awaits mkdir,
\* then serialises the array it refers to and awaits writeFile; the writes of
\* two calls complete in either order.
InitCacheRace == InitNumbers /\ backend = "cached"

\* addNumber up to await fs.mkdir in saveData
cachedAddStart(c, number) ==
    /\ phase = "serving"
    /\ inflight[c].pc = "idle"
    /\ cache.currentId <= MaxNumberId
    /\ cache' = cachedAddNumber(cache, number)
    /\ inflight' = [inflight EXCEPT ![c] =
                      [pc |-> "mkdir", op |-> "add", number |-> number,
                       id |-> cache.currentId,
                       data |-> [numbers |-> {},
                                 nextNumberId |-> cachedAddNumber(cache, number).currentId]]]
    /\ UNCHANGED <<backend, phase, boots, numbers, nextNumberId, returned, numbersFrame>>

\* deleteNumber up to await fs.mkdir in saveData, or to return false
cachedDeleteStart(c, id) ==
    /\ phase = "serving"
    /\ inflight[c].pc = "idle"
    /\ IF cachedDeleteFound(cache, id)
       THEN /\ cache' = cachedDeleteNumber(cache, id)
            /\ inflight' = [inflight EXCEPT ![c] =
                              [pc |-> "mkdir", op |-> "delete", number |-> "", id |-> id,
                               data |-> [numbers |-> {}, nextNumberId |-> cache.currentId]]]
            /\ UNCHANGED returned
       ELSE /\ returned' = returnedDelete(id, FALSE)
            /\ UNCHANGED <<cache, inflight>>
    /\ UNCHANGED <<backend, phase, boots, numbers, nextNumberId, numbersFrame>>

\* mkdir completes: JSON.stringify(data) and the call of fs.writeFile
cachedSaveStringify(c) ==
    /\ inflight[c].pc = "mkdir"
    /\ inflight' = [inflight EXCEPT ![c].pc = "write",
                                    ![c].data = cachedSerialize(cache, @.nextNumberId)]
    /\ UNCHANGED <<backend, phase, boots, numbers, nextNumberId, cache, returned, numbersFrame>>

\* writeFile completes and the call returns
cachedSaveFinish(c) ==
    /\ inflight[c].pc = "write"
    /\ numbers' = inflight[c].data.numbers
    /\ nextNumberId' = inflight[c].data.nextNumberId
    /\ returned' = IF inflight[c].op = "add"
                   THEN returnedAdd(inflight[c].id, inflight[c].number)
                   ELSE returnedDelete(inflight[c].id, TRUE)
    /\ inflight' = [inflight EXCEPT ![c] = IdleCall]
    /\ UNCHANGED <<backend, phase, boots, cache, numbersFrame>>

NextCacheRace ==
    \/ storageInitializeData
    \/ \E c \in Calls, n \in NumberValues : cachedAddStart(c, n)
    \/ \E c \in Calls, id \in NumberIds : cachedDeleteStart(c, id)
    \/ \E c \in Calls : cachedSaveStringify(c)
    \/ \E c \in Calls : cachedSaveFinish(c)

SpecCacheRace == InitCacheRace /\ [][NextCacheRace]_vars

\* ------------------------------------------------ credentials file service
\* The AuthService that keeps one username/password pair in
\* server/config/credentials.json, and the login route that uses it.
\* credentialsFile is the file: its state is "absent", "corrupt" (present, not
\* valid JSON), "partial" (truncated by a write that has not finished) or
\* "valid", with the credentials it holds as content.
InitCredentials ==
    /\ backend = "file"
    /\ phase = "starting"
    /\ dbUsers = {}
    /\ dbNextUserId = 1
    /\ secUsers = {}
    /\ sessions = [s \in Sessions |-> EmptySession]
    /\ numbers = {}
    /\ nextNumberId = 1
    /\ resp = NoResp
    /\ boots = 0
    /\ bootPc = [p \in BootRuns |-> [step |-> "idle", seed |-> 1]]
    /\ credentialsFile \in InitialCredentialsFiles
    /\ credentials = NoCredentials
    /\ savePc = "idle"
    /\ now = 0
    /\ cookieJar = [s \in Sessions |-> NoCookie]
    /\ secretEnv = Undefined
    /\ cache = EmptyCache
    /\ inflight = [c \in Calls |-> IdleCall]
    /\ returned = NothingReturned

\* JSON.parse(await fs.readFile(...)) throws
readCredentialsThrows(file) == file.state \in {"absent", "corrupt", "partial"}

\* initializeCredentials up to the write of saveCredentials: the file is read
\* and parsed; any error makes the defaults the credentials and saves them
initializeCredentials ==
    /\ phase = "starting"
    /\ savePc = "idle"
    /\ credentials = NoCredentials
    /\ boots' = boots + 1
    /\ IF readCredentialsThrows(credentialsFile)
       THEN /\ credentials' = DefaultCredentials
            /\ savePc' = "open"
            /\ UNCHANGED phase
       ELSE /\ credentials' = credentialsFile.content
            /\ phase' = "serving"
            /\ UNCHANGED savePc
    /\ UNCHANGED <<backend, dbUsers, dbNextUserId, secUsers, sessions, numbers,
                   nextNumberId, resp, bootPc, credentialsFile>>
    /\ UNCHANGED <<now, cookieJar>>
    /\ UNCHANGED storageVars

\* fs.writeFile(credentialsPath, ...) opens the file itself for writing, which
\* truncates it
saveOpen ==
    /\ savePc = "open"
    /\ credentialsFile' = credentialsFileOf("partial", NoCredentials)
    /\ savePc' = "write"
    /\ UNCHANGED <<backend, phase, dbUsers, dbNextUserId, secUsers, sessions,
                   numbers, nextNumberId, resp, boots, bootPc, credentials>>
    /\ UNCHANGED <<now, cookieJar>>
    /\ UNCHANGED storageVars

\* the write completes; initializeCredentials returns and the routes are served
saveFinish ==
    /\ savePc = "write"
    /\ credentialsFile' = credentialsFileOf("valid", credentials)
    /\ savePc' = "idle"
    /\ phase' = "serving"
    /\ UNCHANGED <<backend, dbUsers, dbNextUserId, secUsers, sessions,
                   numbers, nextNumberId, resp, boots, bootPc, credentials>>
    /\ UNCHANGED <<now, cookieJar>>
    /\ UNCHANGED storageVars

\* The process dies at any point and is started again: memory (credentials, the
\* write in progress, the in-memory session store) is lost, the file stays.
Crash ==
    /\ boots >= 1
    /\ boots < MaxBoots
    /\ phase' = "starting"
    /\ credentials' = NoCredentials
    /\ savePc' = "idle"
    /\ sessions' = [s \in Sessions |-> EmptySession]
    /\ UNCHANGED <<backend, dbUsers, dbNextUserId, secUsers, numbers,
                   nextNumberId, resp, boots, bootPc, credentialsFile>>
    /\ UNCHANGED <<now, cookieJar>>
    /\ UNCHANGED storageVars

\* validateLogin of the credentials-file service: a boolean
credentialsValidateLogin(username, password) ==
    /\ loginSchemaOk(username, password)
    /\ credentials.username = username
    /\ credentials.password = password

\* POST /api/auth/login of the routes that use the credentials-file service
CredentialsLogin(s, username, password) ==
    /\ phase = "serving"
    /\ IF ~loginSchemaOk(username, password)
       THEN /\ resp' = Reply("login", s, 400, "Invalid request data", {})
            /\ UNCHANGED sessions
       ELSE IF credentialsValidateLogin(username, password)
       THEN /\ sessions' = [sessions EXCEPT ![s] =
                               [isAuthenticated |-> TRUE, userId |-> 0,
                                username |-> username, role |-> Undefined]]
            /\ resp' = Reply("login", s, 200, "Login successful", {"validateLogin"})
       ELSE /\ resp' = Reply("login", s, 401, "Invalid username or password",
                             {"validateLogin"})
            /\ UNCHANGED sessions
    /\ UNCHANGED <<backend, phase, dbUsers, dbNextUserId, secUsers, numbers,
                   nextNumberId, boots, startupVars>>

NextCredentials ==
    \/ initializeCredentials
    \/ saveOpen
    \/ saveFinish
    \/ Crash
    \/ \E s \in Sessions, r \in LoginRequests : CredentialsLogin(s, r[1], r[2])
    \/ \E s \in Sessions : Logout(s)

SpecCredentials == InitCredentials /\ [][NextCredentials]_vars

\* ================================================================= claims
ProtectedOps == {"get-numbers", "add-number"}

AdminGatedOps == {"delete-number", "create-user", "list-users", "change-credentials"}

\* C1: a request to a protected route (GET /api/numbers, POST /api/numbers) on a
\* session that is not authenticated is answered 401 "Authentication required",
\* invokes no storage operation and leaves the stored numbers unchanged.
C1_UnauthenticatedNeverReachesStorage ==
    [][resp'.op \in ProtectedOps =>
       LET s == resp'.sess IN
          (~sessions[s].isAuthenticated
             /\ (GetNumbers(s) \/ \E n \in NumberInputs : AddNumber(s, n)))
          => /\ resp'.status = 401
             /\ resp'.message = "Authentication required"
             /\ resp'.calls = {}
             /\ numbers' = numbers
             /\ nextNumberId' = nextNumberId]_vars

\* C1 case: an add-number request was rejected on an unauthenticated session while
\* another session is logged in and numbers are stored.
C1_Witness ==
    /\ resp.op = "add-number"
    /\ ~resp.wasAuthenticated
    /\ resp.status = 401
    /\ numbers # {}
    /\ \E s \in Sessions : sessions[s].isAuthenticated

\* C2: an admin-gated operation (delete-number, create-user, list-users,
\* change-credentials) runs its handler only on a session that is authenticated
\* with role "admin"; on any other session (role "user" included) it is rejected
\* and the numbers, the users and the sessions stay unchanged; on an admin session
\* it is executed (a delete of a stored number removes it).
C2_AdminGate ==
    [][resp'.op \in AdminGatedOps =>
          LET s == resp'.sess
              gated == CASE resp'.op = "delete-number" ->
                              \E p \in NumberIdParams : DeleteNumber(s, p)
                         [] resp'.op = "create-user" ->
                              \E r \in CreateRequests, ok \in BOOLEAN :
                                 CreateUser(s, r[1], r[2], r[3], ok)
                         [] resp'.op = "list-users" -> ListUsers(s)
                         [] resp'.op = "change-credentials" ->
                              \E c \in CurrentPasswords, r \in ChangeRequests :
                                 ChangeCredentials(s, c, r[1], r[2])
                         [] OTHER -> FALSE
              admin == sessions[s].isAuthenticated /\ sessions[s].role = "admin"
          IN gated =>
             IF admin
             THEN /\ resp'.status # 403
                  /\ \A p \in NumberIdParams :
                        (resp'.op = "delete-number" /\ ~isNaN(p)
                           /\ (\E n \in numbers : n.id = parseInt(p))
                           /\ DeleteNumber(s, p))
                        => /\ resp'.status = 200
                           /\ numbers' = {n \in numbers : n.id # parseInt(p)}
             ELSE /\ resp'.status = 403
                  /\ resp'.calls = {}
                  /\ UNCHANGED <<numbers, nextNumberId, dbUsers, secUsers, sessions>>]_vars

\* C2 case: a delete-number request was rejected on a session logged in with role
\* "user" while a number is stored.
C2_Witness ==
    /\ resp.op = "delete-number"
    /\ resp.status = 403
    /\ sessions[resp.sess].isAuthenticated
    /\ sessions[resp.sess].role = "user"
    /\ numbers # {}

\* C3: on an admin-gated operation a request without an authenticated session is
\* rejected with the response requireAuth gives (401 "Authentication required"),
\* and a request of an authenticated non-admin session with a different one (403).
C3_DistinctRejections ==
    (resp.op \in AdminGatedOps /\ resp.status \in {401, 403})
    => IF resp.wasAuthenticated
       THEN resp.status = 403
       ELSE resp.status = 401 /\ resp.message = "Authentication required"

\* The records of the user store the auth service is wired to.
StoreRecords == IF backend = "db" THEN dbUsers ELSE secUsers

\* p is the password the record x was stored with.
storedPasswordIs(x, p) ==
    IF backend = "db" THEN x.password = p
    ELSE x.passwordHash = derivePasswordHash(p, x.salt)

Passwords == {"admin123", "pendukungjava", "secret1"}

\* C4: for every record of the user store, whichever storage implementation the
\* auth service is wired to, validateLogin with the record's username and its
\* correct password returns that record (same id and role), and with any other
\* password it returns failure.
C4_ValidateLoginMatchesStore ==
    phase = "serving" =>
    \A x \in StoreRecords, p \in Passwords :
       IF storedPasswordIs(x, p)
       THEN /\ validateLogin(x.username, p).id = x.id
            /\ validateLogin(x.username, p).role = x.role
       ELSE validateLogin(x.username, p) = NoUser

\* C5: a login with a username that has no record and a login with the username of
\* a record but another password get the same result: validateLogin returns the
\* same failure value, the response is the same 401 "Invalid username or password"
\* in every field, and the sessions and the user stores are unchanged.
C5_UniformLoginFailure ==
    [][resp'.op = "login" =>
       \A r \in LoginRequests :
          LET s == resp'.sess
              known == \E x \in StoreRecords : x.username = r[1]
              wrong == \E x \in StoreRecords :
                          x.username = r[1] /\ ~storedPasswordIs(x, r[2])
          IN (loginSchemaOk(r[1], r[2]) /\ (~known \/ wrong) /\ Login(s, r[1], r[2]))
             => /\ validateLogin(r[1], r[2]) = NoUser
                /\ resp' = [op |-> "login", sess |-> s,
                            wasAuthenticated |-> sessions[s].isAuthenticated,
                            status |-> 401, message |-> "Invalid username or password",
                            calls |-> {"getUserByUsername"}, isAuthenticated |-> FALSE,
                            identity |-> NoUser, users |-> {}]
                /\ UNCHANGED <<sessions, dbUsers, dbNextUserId, secUsers>>]_vars

\* C5 case: a login has just failed in a state where the login requests include
\* one for a username without a record and one with a wrong password for a
\* username that can log in.
C5_Witness ==
    /\ resp.op = "login"
    /\ resp.status = 401
    /\ \E r \in LoginRequests :
          loginSchemaOk(r[1], r[2]) /\ ~(\E x \in StoreRecords : x.username = r[1])
    /\ \E r \in LoginRequests, x \in StoreRecords :
          /\ loginSchemaOk(r[1], r[2])
          /\ x.username = r[1]
          /\ ~storedPasswordIs(x, r[2])
          /\ \E p \in Passwords : validateLogin(r[1], p) # NoUser

\* C6: whenever isAuthenticated, userId or role of a session changes, either the
\* session was destroyed (it is the empty session) or the step is a login whose
\* validateLogin returned a record, and after every such login the session holds
\* exactly that record's id, username and role.
C6_AuthenticatedOnlyByLogin ==
    [][\A s \in Sessions :
          /\ (\/ sessions'[s].isAuthenticated # sessions[s].isAuthenticated
              \/ sessions'[s].userId # sessions[s].userId
              \/ sessions'[s].role # sessions[s].role)
             => \/ sessions'[s] = EmptySession
                \/ /\ resp'.op = "login" /\ resp'.sess = s /\ resp'.status = 200
                   /\ \E r \in LoginRequests :
                         Login(s, r[1], r[2]) /\ validateLogin(r[1], r[2]) # NoUser
          /\ (resp'.op = "login" /\ resp'.sess = s) =>
             \A r \in LoginRequests :
                (validateLogin(r[1], r[2]) # NoUser /\ Login(s, r[1], r[2]))
                => sessions'[s] =
                     [isAuthenticated |-> TRUE,
                      userId |-> validateLogin(r[1], r[2]).id,
                      username |-> validateLogin(r[1], r[2]).username,
                      role |-> validateLogin(r[1], r[2]).role]]_vars

\* C6 case: a login has just authenticated a session as the user with role "user"
\* while the other session is authenticated as an admin.
C6_Witness ==
    /\ resp.op = "login"
    /\ resp.status = 200
    /\ ~resp.wasAuthenticated
    /\ sessions[resp.sess].isAuthenticated
    /\ sessions[resp.sess].role = "user"
    /\ \E o \in Sessions : sessions[o].isAuthenticated /\ sessions[o].role = "admin"

\* C7: logout destroys the session it is sent on (and no other), always answers
\* 200 "Logged out successfully", and leaves the session failing requireAuth and
\* requireAdmin; sent on a session that is already empty it changes no session; and
\* an unauthenticated session becomes authenticated only by a successful login.
C7_LogoutDestroysIdempotent ==
    [][\A s \in Sessions :
          /\ (resp'.op = "logout" /\ resp'.sess = s /\ Logout(s))
             => /\ sessions'[s] = EmptySession
                /\ \A o \in Sessions \ {s} : sessions'[o] = sessions[o]
                /\ ~(requireAuth(s))'
                /\ ~(requireAdmin(s))'
                /\ resp'.status = 200
                /\ resp'.message = "Logged out successfully"
                /\ (sessions[s] = EmptySession => sessions' = sessions)
          /\ (~sessions[s].isAuthenticated /\ sessions'[s].isAuthenticated)
             => (resp'.op = "login" /\ resp'.sess = s /\ resp'.status = 200)]_vars

\* C7 case: a logout was answered on a session that was already destroyed, after
\* numbers were stored.
C7_Witness ==
    /\ resp.op = "logout"
    /\ ~resp.wasAuthenticated
    /\ resp.status = 200
    /\ sessions[resp.sess] = EmptySession
    /\ numbers # {}

\* C8: current-identity on an authenticated session whose userId has no record
\* destroys the session, answers isAuthenticated = false with no identity, and
\* leaves the session failing requireAuth; when the record exists the answer
\* carries the record's id, username and role as stored.
C8_MeInvalidatesStaleSession ==
    [][resp'.op = "me" =>
       LET s == resp'.sess IN
          (sessions[s].isAuthenticated /\ Me(s))
          => LET recs == {x \in StoreRecords : x.id = sessions[s].userId}
             IN IF recs = {}
                THEN /\ sessions'[s] = EmptySession
                     /\ ~resp'.isAuthenticated
                     /\ resp'.identity = NoUser
                     /\ \A o \in Sessions : o = s => ~(requireAuth(o))'
                ELSE /\ resp'.isAuthenticated
                     /\ \E x \in recs : /\ resp'.identity.id = x.id
                                        /\ resp'.identity.username = x.username
                                        /\ resp'.identity.role = x.role
                     /\ sessions' = sessions]_vars

\* C8 case: current-identity has just destroyed a session that was authenticated
\* for a user whose record is gone.
C8_Witness ==
    /\ resp.op = "me"
    /\ resp.wasAuthenticated
    /\ ~resp.isAuthenticated
    /\ sessions[resp.sess] = EmptySession

\* C9: a credential change whose current password is not the stored one, or whose
\* session's userId has no record, is answered with a failure, never invokes
\* updateUser, and leaves every user record and every session unchanged.
C9_WrongPasswordChangesNothing ==
    [][resp'.op = "change-credentials" =>
       LET s == resp'.sess
           recs == {x \in StoreRecords : x.id = sessions[s].userId}
           rejected(c) == recs = {} \/ \E x \in recs : ~storedPasswordIs(x, c)
           nothingDone == /\ resp'.status \in {400, 403}
                          /\ "updateUser" \notin resp'.calls
                          /\ UNCHANGED <<dbUsers, dbNextUserId, secUsers, sessions>>
       IN nothingDone
          \/ \A c \in CurrentPasswords, r \in ChangeRequests :
                ~(rejected(c) /\ ChangeCredentials(s, c, r[1], r[2]))]_vars

\* C9 case: a credential change of an admin session has just been refused for its
\* current password.
C9_Witness ==
    /\ resp.op = "change-credentials"
    /\ resp.status = 400
    /\ resp.message = "Current password is incorrect"
    /\ sessions[resp.sess].role = "admin"

\* C10: no two records of a user store have the same username.
C10_UsernamesUnique ==
    /\ \A u, v \in dbUsers : u.username = v.username => u = v
    /\ \A u, v \in secUsers : u.username = v.username => u = v

\* C10 case: a rename to the username of another record has just been refused, in
\* a store of two records, after a user was created in the secure store.
C10_Witness ==
    /\ resp.op = "change-credentials"
    /\ resp.status = 500
    /\ Cardinality(dbUsers) = 2
    /\ Cardinality(secUsers) = 2

\* ------------------------------------------------------------------- C11
\* C11: a create-user request of an admin session, with input that passes the
\* checks, for a username that already has a record is answered 409
\* "Username already exists", and no user table changes (the record of that
\* name keeps its id, role and password material).
C11_DuplicateCreateRejected ==
    [][resp'.op = "create-user" =>
       LET s == resp'.sess
           refused == /\ resp'.status = 409
                      /\ resp'.message = "Username already exists"
                      /\ UNCHANGED <<secUsers, dbUsers, dbNextUserId>>
       IN refused
          \/ \A r \in CreateRequests, ok \in BOOLEAN :
                ~(/\ sessions[s].isAuthenticated /\ sessions[s].role = "admin"
                  /\ createUserValidation(r[1], r[2], r[3]) = ""
                  /\ \E u \in secUsers : u.username = r[1]
                  /\ CreateUser(s, r[1], r[2], r[3], ok))]_vars

\* C11 case: the store has refused a create-user for a name it already holds.
C11_Witness ==
    /\ resp.op = "create-user"
    /\ resp.status = 409
    /\ resp.calls = {"createUser"}
    /\ \E u \in secUsers : u.username = "admin"

\* ------------------------------------------------------------------- C13
\* the input a create-user request must carry for the store to be called
createUserInputAcceptable(username, password, role) ==
    /\ username # "" /\ password # "" /\ role # ""
    /\ role \in {"admin", "user"}
    /\ Len(username) >= 3
    /\ Len(password) >= 6

C15_UserRoleReadOnly ==
    [][\A s \in Sessions :
          (/\ resp'.sess = s
           /\ sessions[s].isAuthenticated
           /\ sessions[s].role = "user")
          => UNCHANGED <<numbers, dbUsers, secUsers>>]_vars

\* ------------------------------------------------------------------- C16
\* C16: no response carries a password, a password hash or a salt: the identity
\* of /api/auth/me has no password, and every user listed or returned by
\* list-users and create-user has the fields id, username and role only.
C16_NoSecretsInResponses ==
    /\ resp.identity.password = Undefined
    /\ \A u \in resp.users : DOMAIN u = {"id", "username", "role"}

\* C16 case: the user list was sent while the store held secrets of two users.
C16_Witness ==
    /\ resp.op = "list-users"
    /\ resp.status = 200
    /\ Cardinality(resp.users) = 2
    /\ \E u \in secUsers : u.passwordHash = derivePasswordHash("secret1", u.salt)

\* C16 case: /api/auth/me answered for a record that is stored with its password.
C16_WitnessMe ==
    /\ resp.op = "me"
    /\ resp.identity.username = "admin"
    /\ \E u \in dbUsers : u.id = resp.identity.id /\ u.password = "admin123"

\* ------------------------------------------------------------------- C20
\* C20: when saving the table fails during a createUser, the table is as it was
\* before: the new username is still not found, the id the next insert assigns
\* is unchanged, and the request is answered with the generic failure (500).
C20_FailedSaveRollsBack ==
    [][resp'.op = "create-user" =>
       LET s == resp'.sess
           rolledBack == /\ secNextId(secUsers') = secNextId(secUsers)
                         /\ secUsers' = secUsers
                         /\ resp'.status = 500
                         /\ resp'.message = "Failed to create user"
       IN \A r \in CreateRequests :
             \/ rolledBack /\ ~(\E u \in secUsers' : u.username = r[1])
             \/ ~(/\ sessions[s].isAuthenticated /\ sessions[s].role = "admin"
                  /\ createUserValidation(r[1], r[2], r[3]) = ""
                  /\ ~(\E u \in secUsers : u.username = r[1])
                  /\ CreateUser(s, r[1], r[2], r[3], FALSE))]_vars

\* C20 case: a create-user whose save failed has been answered, and the name it
\* asked for has no record.
C20_Witness ==
    /\ resp.op = "create-user"
    /\ resp.status = 500
    /\ resp.calls = {"createUser"}
    /\ ~(\E u \in secUsers : u.username = "bob")

\* ------------------------------------------------------------------- C14
\* C14: after the first start on an empty store, a restart and the second start,
\* with no request in between, the store holds exactly one user, named admin with
\* role admin; validateLogin("admin", "admin123") succeeds and
\* validateLogin("admin", "wrong") fails.
C14_BootstrapThenRestart ==
    (phase = "serving" /\ boots = 2 /\ resp = NoResp) =>
       /\ Cardinality(StoreRecords) = 1
       /\ \A u \in StoreRecords : u.username = "admin" /\ u.role = "admin"
       /\ validateLogin("admin", "admin123") # NoUser
       /\ validateLogin("admin", "wrong") = NoUser

\* ------------------------------------------------------------------- C12
\* C12: in every interleaving of two user-creation flows for one username, the
\* existence check and the write are serialized: the two flows are never both
\* past the check, having found the name absent, before either has written; and
\* at most one of them creates a record, so no username has two records.
C12_CreationSerialized ==
    /\ \A p, q \in BootRuns :
          p # q => ~(bootPc[p].step = "create" /\ bootPc[q].step = "create"
                     /\ bootPc[p].seed = bootPc[q].seed)
    /\ \A name \in {"admin", "danixren", "bob"} :
          Cardinality({u \in dbUsers : u.username = name}) <= 1
          /\ Cardinality({u \in secUsers : u.username = name}) <= 1

\* ------------------------------------------------------------------- C18
\* C18: while the credentials file is present but corrupted, loading it yields no
\* credentials (neither an empty nor the default set) and the file is not
\* overwritten: the load fails instead.
C18_CorruptFileFailsLoad ==
    [][credentialsFile.state = "corrupt" =>
          /\ credentials' = NoCredentials
          /\ credentialsFile' = credentialsFile
          /\ savePc' = "idle"]_vars

\* ------------------------------------------------------------------- C19
\* C19: persistence of the credentials file is atomic: when no write is in
\* progress (in particular after a crash in the middle of one) the file is a
\* complete version, never a partial one.
C19_AtomicPersistence ==
    savePc = "idle" => credentialsFile.state # "partial"

\* ------------------------------------------------------------------- C17
\* C17: the session lifetime is an idle timeout of 30 minutes refreshed by use: a
\* request of a session that was authenticated at its previous request, made
\* less than 30 minutes after that request, is accepted; a request made more
\* than 30 minutes after the session's previous request is not accepted.
C17_IdleTimeoutRefreshedByUse ==
    [][resp'.op = "get-numbers" =>
       \A s \in Sessions :
          (resp'.sess = s /\ SessionRequest(s)) =>
             /\ (cookieJar[s].accepted /\ now - cookieJar[s].lastUse < CookieMaxAge)
                   => resp'.status = 200
             /\ now - cookieJar[s].lastUse > CookieMaxAge
                   => resp'.status = 401]_vars
\* ------------------------------------------------------------------- C21
\* C21: a start without the required secret configured is fatal: the service
\* never serves requests with the hard-coded default secret.
C21_NoDefaultSecretInService ==
    phase = "serving" => sessionSecret # DefaultSessionSecret
\* ------------------------------------------------------------------- C22
\* C22: after a successful change-credentials that supplies a new username and a
\* new password, validateLogin with the new username and new password returns
\* the record of the same id and role; validateLogin with the new username and
\* the old password fails (when the two passwords differ), and validateLogin with
\* the old username fails with every password (when the two usernames differ).
C22_RotationTakesEffect ==
    [][(resp'.op = "change-credentials" /\ resp'.status = 200) =>
       LET s == resp'.sess IN
       \A c \in CurrentPasswords, r \in ChangeRequests :
          (r[1] # Undefined /\ r[2] # Undefined /\ ChangeCredentials(s, c, r[1], r[2])) =>
             \A x \in StoreRecords :
                x.id = sessions[s].userId =>
                   /\ (validateLogin(r[1], r[2]))' # NoUser
                   /\ (validateLogin(r[1], r[2]))'.id = x.id
                   /\ (validateLogin(r[1], r[2]))'.role = x.role
                   /\ r[2] # c => (validateLogin(r[1], c))' = NoUser
                   /\ r[1] # x.username =>
                         \A pw \in Passwords : (validateLogin(x.username, pw))' = NoUser]_vars

\* C22 case: admin/admin123 has just been rotated to bob/secret1.
C22_Witness ==
    /\ resp.op = "change-credentials"
    /\ resp.status = 200
    /\ \E x \in dbUsers : x.id = 1 /\ x.username = "bob" /\ x.password = "secret1"
    /\ sessions[resp.sess].userId = 1
\* ------------------------------------------------------------------- C23
\* C23: a change-credentials of an admin session with the right current password
\* whose new username belongs to a different user is answered with the
\* duplicate-username error (409 "Username already exists", as create-user
\* answers it) and changes no record; a new username equal to the user's own
\* current one is no collision and the change succeeds.
C23_RenameCollisionRejected ==
    [][resp'.op = "change-credentials" =>
       LET s == resp'.sess IN
       \A c \in CurrentPasswords, r \in ChangeRequests :
          (/\ r[1] # Undefined
           /\ requireAdmin(s)
           /\ changeCredentialsAccepted(sessions[s].userId, c, r[1], r[2])
           /\ ChangeCredentials(s, c, r[1], r[2]))
          => IF \E y \in StoreRecords : y.username = r[1] /\ y.id # sessions[s].userId
             THEN /\ resp'.status = 409
                  /\ resp'.message = "Username already exists"
                  /\ UNCHANGED <<dbUsers, secUsers>>
             ELSE resp'.status = 200]_vars
\* ------------------------------------------------------------------- C24
\* the records of table with this id (empty when there is none)
recordsWithId(table, id) == {x \in table : x.id = id}

\* an update that carries no password, applied to the record x of the table:
\* x keeps its id and password material and every other record is as before
updateKeepsPassword(before, after, x, store) ==
    /\ \A y \in before : y.id # x.id => y \in after
    /\ \A y \in after : y.id # x.id => y \in before
    /\ \E y \in after :
          /\ y.id = x.id
          /\ IF store = "db" THEN y.password = x.password
             ELSE y.passwordHash = x.passwordHash /\ y.salt = x.salt

\* C24, the stores: in every reachable state, updateUser with a new username
\* and/or role and no password keeps the password material and the id of the
\* record and every other record, and for an id without a record it changes
\* nothing.
C24_UpdateFrameOfStores ==
    \A id \in 1..3, u \in {Undefined, "bob", "carol"}, role \in {Undefined, "user"} :
       /\ \A x \in dbUsers :
             x.id = id => updateKeepsPassword(dbUsers, dbUpdateUser(dbUsers, id, u, Undefined), x, "db")
       /\ \A x \in secUsers :
             x.id = id => updateKeepsPassword(secUsers, secUpdate(secUsers, id, u, role), x, "file")
       /\ recordsWithId(dbUsers, id) = {} => dbUpdateUser(dbUsers, id, u, Undefined) = dbUsers
       /\ recordsWithId(secUsers, id) = {} =>
             /\ secUpdate(secUsers, id, u, role) = secUsers
             /\ secUpdateOutcome(secUsers, id, u) = "missing"

\* C24: the frame of the stores' updateUser holds in every state, and a
\* successful change-credentials that supplies a new username and no password
\* leaves the password material and the id of the record and every other record
\* unchanged; the old password then logs in under the new username.
C24_UsernameOnlyUpdateFrame ==
    /\ []C24_UpdateFrameOfStores
    /\ [][(resp'.op = "change-credentials" /\ resp'.status = 200) =>
          LET s == resp'.sess IN
          \A c \in CurrentPasswords, r \in ChangeRequests :
             (r[1] # Undefined /\ r[2] = Undefined /\ ChangeCredentials(s, c, r[1], r[2])) =>
                \A x \in StoreRecords :
                   x.id = sessions[s].userId =>
                      /\ updateKeepsPassword(StoreRecords, StoreRecords', x, backend)
                      /\ (validateLogin(r[1], c))' # NoUser
                      /\ (validateLogin(r[1], c))'.id = x.id]_vars

\* C24 case: admin has been renamed to bob with no new password, and its
\* password is still the one it was seeded with.
C24_Witness ==
    /\ resp.op = "change-credentials"
    /\ resp.status = 200
    /\ \E x \in dbUsers : x.id = 1 /\ x.username = "bob" /\ x.password = "admin123"
\* ------------------------------------------------------------------- C25
\* C25: in every reachable state every stored user record has a username of
\* 3 to 64 characters and a role that is admin or user.
C25_StoredRecordsWellFormed ==
    \A u \in dbUsers \cup secUsers :
       /\ Len(u.username) >= 3
       /\ Len(u.username) <= 64
       /\ u.role \in {"admin", "user"}
\* ------------------------------------------------------------------- C26
\* C26: in every reachable state, the username and the role of every
\* authenticated session are those of the stored record with the session's
\* user id, also after a change of credentials.
C26_SessionMirrorsRecord ==
    \A s \in Sessions :
       sessions[s].isAuthenticated =>
          \A x \in StoreRecords :
             x.id = sessions[s].userId =>
                /\ sessions[s].username = x.username
                /\ sessions[s].role = x.role
\* ------------------------------------------------------------------- C27
\* C27: after any sequence of addNumber and deleteNumber calls and restarts,
\* no two stored numbers have the same id, addNumber has never returned an id
\* it had returned before, and the id the next addNumber assigns has not been
\* returned either, also when the number with the highest id was deleted.
C27_IdsUniqueNeverReused ==
    /\ \A m, n \in storedNumbers : m.id = n.id => m = n
    /\ ~returned.reused
    /\ phase = "serving" => nextIdOf \notin returned.issued

\* C27 case: the number with the highest id was deleted, the process was
\* started again and addNumber returned a new id.
C27_Witness ==
    /\ boots = 2
    /\ returned.op = "add"
    /\ returned.id = 2
    /\ returned.issued = {1, 2}
    /\ \A n \in storedNumbers : n.id = 2
\* ------------------------------------------------------------------- C30
\* C30: deleteNumber(id) returns true exactly when a number with that id is
\* stored; it then removes that number and no other and leaves the next id
\* unchanged; when no number has the id it returns false and changes neither
\* the memory nor the persisted data.
C30_DeleteFrame ==
    [][returned'.op = "delete" =>
       \A id \in NumberIds :
          storageDeleteNumber(id) =>
             IF \E n \in storedNumbers : n.id = id
             THEN /\ returned'.found
                  /\ storedNumbers' = {n \in storedNumbers : n.id # id}
                  /\ numbers' = {n \in numbers : n.id # id}
                  /\ nextIdOf' = nextIdOf
                  /\ nextNumberId' = nextNumberId
             ELSE /\ ~returned'.found
                  /\ UNCHANGED <<numbers, nextNumberId, cache>>]_vars

\* C30 case: deleteNumber(1) returned true and the number with id 2 is still
\* stored.
C30_WitnessFound ==
    /\ returned.op = "delete"
    /\ returned.id = 1
    /\ returned.found
    /\ {n.id : n \in storedNumbers} = {2}
    /\ {n.id : n \in numbers} = {2}
\* ------------------------------------------------------------------- C28
\* C28: whenever no call of the read-modify-write FileStorage is in progress,
\* the file holds exactly the numbers addNumber has returned and deleteNumber
\* has not deleted, their ids are distinct and were each returned once, and
\* nextNumberId is greater than every stored id.
C28_NoLostUpdate ==
    (phase = "serving" /\ allIdle) =>
       /\ numbers = returned.acked
       /\ \A m, n \in numbers : m.id = n.id => m = n
       /\ ~returned.reused
       /\ \A n \in numbers : n.id < nextNumberId
\* ------------------------------------------------------------------- C29
\* C29: whenever no call of the cached FileStorage is in progress, the
\* persisted file holds the numbers and the next id that the memory holds.
C29_FileEqualsMemory ==
    (phase = "serving" /\ allIdle) =>
       /\ numbers = cache.numbers
       /\ nextNumberId = cache.currentId
====
